---- MODULE Spec2Model ----
(***************************************************************************)
(* Model of the adaptive moment analysis tool: the benchmark-based         *)
(* threshold tuner (tuner.py) with its on-disk cache, the crossover        *)
(* search, and the row dispatcher of main.py.                              *)
(***************************************************************************)
EXTENDS Integers, Sequences, FiniteSets, TLC

VARIABLES
    file,           \* the cache file at CONFIG_PATH: absent, or its text
    perms,          \* whether CONFIG_PATH can be opened for reading / writing
    env,            \* the five environment facts the fingerprint is made of
    last,           \* what the most recent get_optimal_threshold call did
    twopass_times,  \* _find_crossover: first argument
    pebay_times,    \* _find_crossover: second argument
    crossover,      \* _find_crossover: its result, once called
    data,           \* compute_moment_rows: the matrix, a sequence of rows
    threshold,      \* compute_moment_rows: the threshold argument
    results,        \* compute_moment_rows: the four output sequences
    algo_calls,     \* compute_moment_rows: the algorithm invocations so far
    dpc,            \* compute_moment_rows: where it is, and the next row
    row,            \* the Row handed to the two moment algorithms
    twopass_state,  \* TwoPassMoments: the traversal and its sums
    pebay_state,    \* OnlinePebayMoments: the running state (n, mean, M2, M3, M4)
    procs,          \* concurrent get_optimal_threshold calls: each one's position
    input,          \* read_binary_matrix: the bytes of the matrix file
    fingerprints,   \* _system_fingerprint: the calls made and their results
    benchmark       \* _run_benchmark: its arguments, loop position and locals

tunerVars == <<file, perms, env, last>>
xoVars    == <<twopass_times, pebay_times, crossover>>
dispVars  == <<data, threshold, results, algo_calls, dpc>>
momVars   == <<row, twopass_state, pebay_state>>
restVars  == <<row, twopass_state, pebay_state, procs, input, fingerprints,
               benchmark>>
vars      == <<file, perms, env, last, twopass_times, pebay_times,
               crossover, data, threshold, results, algo_calls, dpc,
               row, twopass_state, pebay_state, procs, input, fingerprints,
               benchmark>>

Range(s) == {s[i] : i \in DOMAIN s}

(***************************************************************************)
(* Python values, as far as the cache file can hold them.                  *)
(***************************************************************************)
PyInt(n) == [t |-> "int", i |-> n]
PyStr(s) == [t |-> "str", s |-> s]
PyNone   == [t |-> "null"]
PyList   == [t |-> "list"]
\* a dict with string keys, in insertion order
PyDict(keys, d) == [t |-> "dict", keys |-> keys, d |-> d]
\* a JSON object as it stands in a text: its members in order; the other
\* JSON values (number, string, null, array) are written as PyInt, PyStr,
\* PyNone and PyList
JObject(keys, vals) == [t |-> "object", keys |-> keys, vals |-> vals]
\* a timing table: a dict from row length (int) to mean duration
Timings(keys, d) == [t |-> "timings", keys |-> keys, d |-> d]

\* Python's == between a loaded value and a str
PyEqStr(v, s) == v.t = "str" /\ v.s = s

(***************************************************************************)
(* Outcomes of a block of code.                                            *)
(***************************************************************************)
Raise(exc)  == [kind |-> "raise", exc |-> exc]
Return(v)   == [kind |-> "return", val |-> v]
Fallthrough == [kind |-> "fallthrough"]

\* the exception classes below are all subclasses of Exception
ExceptionSubclasses ==
    {"FileNotFoundError", "PermissionError", "OSError", "JSONDecodeError",
     "AttributeError"}

(***************************************************************************)
(* The cache file.                                                         *)
(***************************************************************************)
NoFile         == [exists |-> FALSE]
FileWith(text) == [exists |-> TRUE, text |-> text]
Invalid(why)   == [kind |-> "invalid", why |-> why]
Json(v)        == [kind |-> "json", val |-> v]

(***************************************************************************)
(* _system_fingerprint: sha256 over json.dumps(identity, sort_keys=True).  *)
(* The digest is modelled as the serialized identity itself (keys in       *)
(* sorted order), i.e. the hash is taken to be collision free.             *)
(***************************************************************************)
Platforms  == {"Linux", "Darwin"}
Machines   == {"x86_64", "arm64"}
Processors == {"i386", "arm"}
Pythons    == {"3.11.4", "3.12.1"}
Users      == {"pooja", "ci"}

BaseEnv == [platform |-> "Linux", machine |-> "x86_64", processor |-> "i386",
            python_version |-> "3.11.4", user |-> "pooja"]

\* the base environment and every environment differing from it in one fact
Envs ==
    {BaseEnv}
    \cup {[BaseEnv EXCEPT !.platform = v] : v \in Platforms}
    \cup {[BaseEnv EXCEPT !.machine = v] : v \in Machines}
    \cup {[BaseEnv EXCEPT !.processor = v] : v \in Processors}
    \cup {[BaseEnv EXCEPT !.python_version = v] : v \in Pythons}
    \cup {[BaseEnv EXCEPT !.user = v] : v \in Users}

\* _system_fingerprint with the host name among the facts hashed
_system_fingerprint_with_node(e) ==
    "sha256{machine:" \o e.machine \o ",node:" \o e.node
        \o ",platform:" \o e.platform
        \o ",processor:" \o e.processor
        \o ",python_version:" \o e.python_version
        \o ",user:" \o e.user \o "}"

_system_fingerprint(e) ==
    "sha256{machine:" \o e.machine \o ",platform:" \o e.platform
        \o ",processor:" \o e.processor
        \o ",python_version:" \o e.python_version
        \o ",user:" \o e.user \o "}"

(***************************************************************************)
(* Reading the cache: the try block of get_optimal_threshold.              *)
(***************************************************************************)
os_path_exists(f) == f.exists

open_read(f, p) ==
    IF ~f.exists THEN Raise("FileNotFoundError")
    ELSE IF ~p.r THEN Raise("PermissionError")
    ELSE Return(f.text)

\* the member of a JSON object with the given name
member(obj, k) == obj.vals[CHOOSE i \in DOMAIN obj.keys : obj.keys[i] = k]

\* a JSON object becomes a dict with str keys (nested objects too)
json_decode_value(v) ==
    IF v.t = "object"
    THEN PyDict(v.keys, [k \in Range(v.keys) |-> member(v, k)])
    ELSE v

json_decode(v) ==
    IF v.t = "object"
    THEN PyDict(v.keys, [k \in Range(v.keys) |-> json_decode_value(member(v, k))])
    ELSE v

json_load(text) ==
    IF text.kind = "invalid" THEN Raise("JSONDecodeError")
    ELSE Return(json_decode(text.val))

\* config.get(key): only a dict has .get; a missing key gives None
config_get(config, key) ==
    IF config.t # "dict" THEN Raise("AttributeError")
    ELSE Return(IF key \in DOMAIN config.d THEN config.d[key] ELSE PyNone)

\* cache_try without the fingerprint comparison
cache_try_ungated(f, p, system_id) ==
    LET o == open_read(f, p) IN
    IF o.kind = "raise" THEN o ELSE
    LET j == json_load(o.val) IN
    IF j.kind = "raise" THEN j ELSE
    LET g == config_get(j.val, "system_id") IN
    IF g.kind = "raise" THEN g ELSE
    IF "threshold" \in DOMAIN j.val.d
    THEN Return(j.val.d["threshold"])
    ELSE Fallthrough

\* the body of the try block: returns, raises, or falls out of the with
cache_try(f, p, system_id) ==
    LET o == open_read(f, p) IN
    IF o.kind = "raise" THEN o ELSE
    LET j == json_load(o.val) IN
    IF j.kind = "raise" THEN j ELSE
    LET g == config_get(j.val, "system_id") IN
    IF g.kind = "raise" THEN g ELSE
    IF PyEqStr(g.val, system_id) /\ "threshold" \in DOMAIN j.val.d
    THEN Return(j.val.d["threshold"])
    ELSE Fallthrough

\* a handler for json.JSONDecodeError alone
except_JSONDecodeError_pass(r) ==
    IF r.kind = "raise" /\ r.exc = "JSONDecodeError" THEN Fallthrough ELSE r

\* except Exception: pass
except_Exception_pass(r) ==
    IF r.kind = "raise" /\ r.exc \in ExceptionSubclasses THEN Fallthrough ELSE r

\* load_from_cache with the "not" of "not force_retune" left out
load_from_cache_unnegated(f, p, system_id, force_retune) ==
    IF force_retune /\ os_path_exists(f)
    THEN except_Exception_pass(cache_try(f, p, system_id))
    ELSE Fallthrough

\* load_from_cache reading the cache whether or not force_retune is set
load_from_cache_ignoring_force(f, p, system_id, force_retune) ==
    IF os_path_exists(f)
    THEN except_Exception_pass(cache_try(f, p, system_id))
    ELSE Fallthrough

\* the whole "try loading from cache" statement
load_from_cache(f, p, system_id, force_retune) ==
    IF ~force_retune /\ os_path_exists(f)
    THEN except_Exception_pass(cache_try(f, p, system_id))
    ELSE Fallthrough

(***************************************************************************)
(* The benchmark harness and the crossover search.                         *)
(***************************************************************************)
\* list(range(start, stop, step)) for a positive step
range(start, stop, step) ==
    [i \in 1..(IF stop > start THEN (stop - start + step - 1) \div step ELSE 0)
        |-> start + (i - 1) * step]

\* row_lengths = list(range(8, 2049, 32))
row_lengths == range(8, 2049, 32)

\* The sweep as the model runs it: its first MaxSweep - 1 lengths and its
\* last one, in order (the whole sweep once MaxSweep reaches its length).
MaxSweep == 4

swept(lengths) ==
    IF Len(lengths) <= MaxSweep THEN lengths
    ELSE [i \in 1..MaxSweep |->
             IF i < MaxSweep THEN lengths[i] ELSE lengths[Len(lengths)]]

\* _run_benchmark: one entry per requested length, in the order requested;
\* clock[func][n] is the mean of the durations measured for func at length n
_run_benchmark(func, lengths, clock) ==
    Timings(lengths, [n \in Range(lengths) |-> clock[func][n]])

RECURSIVE insort(_, _)
insort(s, x) ==
    IF s = <<>> THEN <<x>>
    ELSE IF s[Len(s)] <= x THEN Append(s, x)
    ELSE Append(insort(SubSeq(s, 1, Len(s) - 1), x), s[Len(s)])

\* the keys as they come, in insertion order
unsorted(s) == s

\* sorted(keys): ascending
RECURSIVE sort_loop(_, _)
sort_loop(s, acc) ==
    IF Len(acc) = Len(s) THEN acc
    ELSE sort_loop(s, insort(acc, s[Len(acc) + 1]))

sorted(s) == sort_loop(s, <<>>)

\* max(keys)
RECURSIVE max_loop(_, _, _)
max_loop(s, i, m) ==
    IF i > Len(s) THEN m
    ELSE max_loop(s, i + 1, IF s[i] > m THEN s[i] ELSE m)

py_max(s) == max_loop(s, 2, s[1])

\* the for loop of _find_crossover over the sorted keys, from position i:
\* the position at which it returns, or Len(ks) + 1 when it runs to its end
RECURSIVE crossover_loop(_, _, _, _)
crossover_loop(ks, i, twopass, pebay) ==
    IF i > Len(ks) THEN i
    ELSE IF pebay.d[ks[i]] < twopass.d[ks[i]] THEN i
    ELSE crossover_loop(ks, i + 1, twopass, pebay)

_find_crossover(twopass, pebay) ==
    LET ks == sorted(twopass.keys)
        i  == crossover_loop(ks, 1, twopass, pebay)
    IN  IF i <= Len(ks) THEN ks[i] ELSE py_max(twopass.keys)

(***************************************************************************)
(* Writing the cache: json.dump into open(CONFIG_PATH, "w").               *)
(***************************************************************************)
\* json turns the int keys of a timing table into strings
json_encode_table(tbl) ==
    JObject([i \in DOMAIN tbl.keys |-> ToString(tbl.keys[i])],
            [i \in DOMAIN tbl.keys |-> tbl.d[tbl.keys[i]]])

json_encode_value(v) == IF v.t = "timings" THEN json_encode_table(v) ELSE v

json_encode(obj) ==
    IF obj.t = "dict"
    THEN JObject(obj.keys,
                 [i \in DOMAIN obj.keys |-> json_encode_value(obj.d[obj.keys[i]])])
    ELSE json_encode_value(obj)

\* open(CONFIG_PATH, "w"): fails without touching anything, or creates the
\* file / truncates it to nothing
open_write(f, p) ==
    IF ~p.w THEN Raise("PermissionError")
    ELSE Return(FileWith(Invalid("empty")))

\* json.dump(obj, f) and the close at the end of the with block: either the
\* whole text reaches the file, or an I/O error leaves a prefix of it
json_dump(obj, io) ==
    IF io = "ok" THEN Return(FileWith(Json(json_encode(obj))))
    ELSE [kind |-> "raise", exc |-> "OSError",
          val |-> FileWith(Invalid("partial"))]

\* the try block that saves the config: the file afterwards and how it ended
save_try(f, p, config, io) ==
    LET o == open_write(f, p) IN
    IF o.kind = "raise" THEN [file |-> f, end |-> o, save |-> "openfail"]
    ELSE LET w == json_dump(config, io) IN
         IF w.kind = "raise"
         THEN [file |-> w.val, end |-> Raise(w.exc), save |-> "iofail"]
         ELSE [file |-> w.val, end |-> Fallthrough, save |-> "ok"]

\* except Exception as e: print("Warning: ...")
except_Exception_warn(r) ==
    IF r.kind = "raise" /\ r.exc \in ExceptionSubclasses
    THEN [kind |-> "fallthrough", warned |-> TRUE]
    ELSE [kind |-> r.kind, warned |-> FALSE]

\* config_record with the fingerprint under a key the reader does not look up
config_record_fingerprint_key(thr, system_id, twopass, pebay) ==
    PyDict(<<"threshold", "fingerprint", "twopass", "pebay">>,
           [k \in {"threshold", "fingerprint", "twopass", "pebay"} |->
               CASE k = "threshold"   -> PyInt(thr)
                 [] k = "fingerprint" -> PyStr(system_id)
                 [] k = "twopass"     -> twopass
                 [] k = "pebay"       -> pebay])

\* config_record with each timing table under the other one's key
config_record_swapped_tables(thr, system_id, twopass, pebay) ==
    PyDict(<<"threshold", "system_id", "twopass", "pebay">>,
           [k \in {"threshold", "system_id", "twopass", "pebay"} |->
               CASE k = "threshold" -> PyInt(thr)
                 [] k = "system_id" -> PyStr(system_id)
                 [] k = "twopass"   -> pebay
                 [] k = "pebay"     -> twopass])

\* the record json.dump is given
config_record(thr, system_id, twopass, pebay) ==
    PyDict(<<"threshold", "system_id", "twopass", "pebay">>,
           [k \in {"threshold", "system_id", "twopass", "pebay"} |->
               CASE k = "threshold" -> PyInt(thr)
                 [] k = "system_id" -> PyStr(system_id)
                 [] k = "twopass"   -> twopass
                 [] k = "pebay"     -> pebay])

(***************************************************************************)
(* get_optimal_threshold: the file it leaves and the record of the call.   *)
(***************************************************************************)
CallRecord(force, fp, outcome, ret, src, bench, tp, pb, warned, save) ==
    [op |-> "call", force |-> force, fp |-> fp, outcome |-> outcome,
     ret |-> ret, src |-> src, bench |-> bench, twopass |-> tp, pebay |-> pb,
     warned |-> warned, save |-> save]

get_optimal_threshold(f, p, e, force_retune, clock, io) ==
    LET system_id == _system_fingerprint(e)
        cached    == load_from_cache(f, p, system_id, force_retune)
    IN
    IF cached.kind = "return"
    THEN [file |-> f,
          call |-> CallRecord(force_retune, system_id, "return", cached.val,
                              "cache", <<>>, PyNone, PyNone, FALSE, "none")]
    ELSE IF cached.kind = "raise"
    THEN [file |-> f,
          call |-> CallRecord(force_retune, system_id, "raise", PyNone,
                              "none", <<>>, PyNone, PyNone, FALSE, "none")]
    ELSE
    LET twopass == _run_benchmark("twopass", swept(row_lengths), clock)
        pebay   == _run_benchmark("pebay", swept(row_lengths), clock)
        thr     == _find_crossover(twopass, pebay)
        saved   == save_try(f, p, config_record(thr, system_id, twopass, pebay), io)
        handled == except_Exception_warn(saved.end)
    IN
    [file |-> saved.file,
     call |-> CallRecord(force_retune, system_id,
                         IF handled.kind = "raise" THEN "raise" ELSE "return",
                         IF handled.kind = "raise" THEN PyNone ELSE PyInt(thr),
                         "bench", <<"twopass", "pebay">>, twopass, pebay,
                         handled.warned, saved.save)]

(***************************************************************************)
(* The tuner and its surroundings as a state machine.                      *)
(***************************************************************************)
\* lengths of the sweep at which a measurement may come out in favour of the
\* online algorithm: the second and the third
ProbeLengths == {row_lengths[2], row_lengths[3]}

\* mean durations as measured: the two-pass algorithm takes 2 units at every
\* length, the online algorithm 1 unit at the lengths in W and 2 elsewhere
Clock(W) ==
    [func \in {"twopass", "pebay"} |->
        [n \in Range(row_lengths) |->
            IF func = "pebay" /\ n \in W THEN 1 ELSE 2]]

\* another environment, for records left behind by it
OtherEnv == [BaseEnv EXCEPT !.user = "ci"]

\* the environments the tuner is run in
TunerEnvs == {BaseEnv, OtherEnv}

\* a hand-made record: system_id and threshold each present or not
EditedRecord(sid, thr) ==
    LET ks == (IF sid[1] THEN <<"system_id">> ELSE <<>>)
                  \o (IF thr[1] THEN <<"threshold">> ELSE <<>>)
    IN  JObject(ks, [i \in DOMAIN ks |->
                        IF ks[i] = "system_id" THEN sid[2] ELSE thr[2]])

EditedSids ==
    {<<FALSE, PyNone>>,
     <<TRUE, PyStr(_system_fingerprint(BaseEnv))>>,
     <<TRUE, PyStr(_system_fingerprint(OtherEnv))>>}

EditedThresholds ==
    {<<FALSE, PyNone>>, <<TRUE, PyInt(16)>>, <<TRUE, PyNone>>,
     <<TRUE, PyStr("16")>>}

\* what the file may be turned into from outside the tuner
OutsideFiles ==
    {NoFile, FileWith(Invalid("broken")), FileWith(Json(PyList)),
     FileWith(Json(PyInt(7)))}
    \cup {FileWith(Json(EditedRecord(sid, thr))) :
             sid \in EditedSids, thr \in EditedThresholds}

Perms == [r : BOOLEAN, w : BOOLEAN]

NoCall == [op |-> "none"]

(***************************************************************************)
(* Observations kept with the record of a call, for stating properties:    *)
(* what the cache file was when the call began, and the most recent        *)
(* force_retune=True call since which nothing outside the tuner changed.   *)
(***************************************************************************)
IsRecord(f) ==
    f.exists /\ f.text.kind = "json" /\ f.text.val.t = "object"

HasMember(f, k) == IsRecord(f) /\ k \in Range(f.text.val.keys)

CacheFacts(f, p, fp) ==
    [exists   |-> f.exists,
     readable |-> f.exists /\ p.r,
     parses   |-> f.exists /\ f.text.kind = "json",
     record   |-> IsRecord(f),
     sid      |-> IF ~HasMember(f, "system_id") THEN "absent"
                  ELSE IF member(f.text.val, "system_id") = PyStr(fp)
                       THEN "same" ELSE "differs",
     thr      |-> IF ~HasMember(f, "threshold") THEN "absent"
                  ELSE member(f.text.val, "threshold").t]

NoForced == [on |-> FALSE]

ForcedAfter(prev, call) ==
    IF call.force
    THEN IF call.outcome = "return"
         THEN [on |-> TRUE, T |-> call.ret, saved |-> call.save = "ok"]
         ELSE NoForced
    ELSE IF prev.op = "call" THEN prev.forced ELSE NoForced

\* the call whose record was the last thing written to the file, as long as
\* nothing outside the tuner has changed since: a call that writes its
\* record in full takes over, a call that writes nothing (a cache hit, a
\* failed open) leaves it, a write that fails part-way ends it
NoWriter == [on |-> FALSE]

WriterAfter(prev, call) ==
    IF call.save = "ok"
    THEN [on |-> TRUE, fp |-> call.fp, ret |-> call.ret]
    ELSE IF call.save \in {"none", "openfail"} /\ prev.op = "call"
    THEN prev.writer
    ELSE NoWriter

IdleXo ==
    /\ twopass_times = Timings(<<>>, <<>>)
    /\ pebay_times = Timings(<<>>, <<>>)
    /\ crossover = [done |-> FALSE]

IdleDisp ==
    /\ data = <<>>
    /\ threshold = 0
    /\ results = <<>>
    /\ algo_calls = <<>>
    /\ dpc = [at |-> "idle", row |-> 0]

IdleMom ==
    /\ row = <<>>
    /\ twopass_state = [at |-> "idle"]
    /\ pebay_state = [at |-> "idle"]

IdleProcs == procs = <<>>

IdleRead == input = [header |-> <<>>, payload |-> <<>>]

IdleFp == fingerprints = <<>>

IdleBench == benchmark = [at |-> "idle"]

IdleRest ==
    /\ IdleMom
    /\ IdleProcs
    /\ IdleRead
    /\ IdleFp
    /\ IdleBench

IdleTuner ==
    /\ file = NoFile
    /\ perms = [r |-> TRUE, w |-> TRUE]
    /\ env = BaseEnv
    /\ last = NoCall

Init ==
    /\ IdleTuner
    /\ IdleXo
    /\ IdleDisp
    /\ IdleRest

\* one call of get_optimal_threshold(twopass_fn, pebay_fn, force_retune)
Tune(force_retune, W, io) ==
    LET r == get_optimal_threshold(file, perms, env, force_retune, Clock(W), io)
    IN  /\ file' = r.file
        /\ last' = r.call @@ [saw |-> CacheFacts(file, perms, r.call.fp),
                               forced |-> ForcedAfter(last, r.call),
                               writer |-> WriterAfter(last, r.call)]
        /\ UNCHANGED <<perms, env, xoVars, dispVars, restVars>>

\* the file is edited, replaced or deleted from outside
Tamper(f) ==
    /\ f # file
    /\ file' = f
    /\ last' = NoCall
    /\ UNCHANGED <<perms, env, xoVars, dispVars, restVars>>

\* the machine, the runtime or the user changes
EnvChange(e) ==
    /\ e # env
    /\ env' = e
    /\ last' = NoCall
    /\ UNCHANGED <<file, perms, xoVars, dispVars, restVars>>

\* the permissions on CONFIG_PATH change
Chmod(p) ==
    /\ p # perms
    /\ perms' = p
    /\ last' = NoCall
    /\ UNCHANGED <<file, env, xoVars, dispVars, restVars>>

Next ==
    \/ \E force_retune \in BOOLEAN, W \in SUBSET ProbeLengths, io \in {"ok", "fail"} :
           Tune(force_retune, W, io)
    \/ \E f \in OutsideFiles : Tamper(f)
    \/ \E e \in TunerEnvs : EnvChange(e)
    \/ \E p \in Perms : Chmod(p)

Spec == Init /\ [][Next]_vars

(***************************************************************************)
(* _find_crossover on its own: every pair of timing tables over the same   *)
(* non-empty set of lengths, each in every insertion order.                *)
(***************************************************************************)
\* the row lengths of test_find_crossover_logic
XoLengths == {8, 16, 32}

\* durations are drawn from 0..MaxTime
MaxTime == 2

\* the sequences that list every element of S once
Orders(S) ==
    {o \in [1..Cardinality(S) -> S] : \A x \in S : \E i \in DOMAIN o : o[i] = x}

InitCrossover ==
    /\ IdleTuner
    /\ IdleDisp
    /\ IdleRest
    /\ crossover = [done |-> FALSE]
    /\ \E K \in SUBSET XoLengths \ {{}} :
           /\ \E o \in Orders(K), d \in [K -> 0..MaxTime] :
                  twopass_times = Timings(o, d)
           /\ \E o \in Orders(K), d \in [K -> 0..MaxTime] :
                  pebay_times = Timings(o, d)

FindCrossover ==
    /\ ~crossover.done
    /\ crossover' = [done |-> TRUE,
                     val |-> _find_crossover(twopass_times, pebay_times)]
    /\ UNCHANGED <<twopass_times, pebay_times, tunerVars, dispVars, restVars>>

NextCrossover == FindCrossover

SpecCrossover == InitCrossover /\ [][NextCrossover]_vars

(***************************************************************************)
(* compute_moment_rows: the dispatcher loop over the rows of a matrix.     *)
(***************************************************************************)
\* matrices have 1..MaxRows rows and 1..MaxCols columns of int8 values
MaxRows == 2
MaxCols == 2
CellValues == {-128, 127}

\* compute_moments_twopass / compute_moments_pebay of momentcore: the four
\* moments of a row as the named algorithm computes them
compute_moments(algo, row_list) ==
    [i \in 1..4 |-> [moment |-> i, by |-> algo, of |-> row_list]]

\* round_half_up: float(f"{value:.2f}")
round_half_up(value) == [rounded |-> value, places |-> 2]

\* select_algo with <= for <
select_algo_le(row_list, thr) ==
    IF Len(row_list) <= thr THEN "twopass" ELSE "pebay"

\* algo = compute_moments_twopass if len(row_list) < threshold else ..._pebay
select_algo(row_list, thr) ==
    IF Len(row_list) < thr THEN "twopass" ELSE "pebay"

\* append_moments putting each value at the front of its sequence
append_moments_front(res, row_moments) ==
    [i \in 1..4 |-> <<round_half_up(row_moments[i])>> \o res[i]]

\* append_moments where a row after the first gets the values still held
\* from the first row
append_moments_carried(res, row_moments) ==
    [i \in 1..4 |->
        Append(res[i], IF res[i] = <<>> THEN round_half_up(row_moments[i])
                       ELSE res[i][1])]

\* for i in range(4): results[i].append(round_half_up(row_moments[i]))
append_moments(res, row_moments) ==
    [i \in 1..4 |-> Append(res[i], round_half_up(row_moments[i]))]

\* compute_moment_rows as a function of its arguments: the loop from row j on
RECURSIVE rows_loop(_, _, _, _)
rows_loop(d, thr, j, res) ==
    IF j > Len(d) THEN res
    ELSE rows_loop(d, thr, j + 1,
             append_moments(res,
                 compute_moments(select_algo(d[j], thr), d[j])))

compute_moment_rows(d, thr) == rows_loop(d, thr, 1, [i \in 1..4 |-> <<>>])

InitDispatch ==
    /\ IdleTuner
    /\ IdleXo
    /\ IdleRest
    /\ \E M \in 1..MaxRows, N \in 1..MaxCols :
           data \in [1..M -> [1..N -> CellValues]]
    /\ threshold \in (0 - 1)..(MaxCols + 1)
    /\ results = [i \in 1..4 |-> <<>>]
    /\ algo_calls = <<>>
    /\ dpc = [at |-> "loop", row |-> 1]

\* one iteration of "for row in data"
ProcessRow ==
    /\ dpc.at = "loop"
    /\ dpc.row <= Len(data)
    /\ LET row_list    == data[dpc.row]
           algo        == select_algo(row_list, threshold)
           row_moments == compute_moments(algo, row_list)
       IN  /\ algo_calls' = Append(algo_calls, [algo |-> algo, row |-> row_list])
           /\ results' = append_moments(results, row_moments)
    /\ dpc' = [dpc EXCEPT !.row = @ + 1]
    /\ UNCHANGED <<data, threshold, tunerVars, xoVars, restVars>>

\* return results
ReturnResults ==
    /\ dpc.at = "loop"
    /\ dpc.row > Len(data)
    /\ dpc' = [dpc EXCEPT !.at = "done"]
    /\ UNCHANGED <<data, threshold, results, algo_calls, tunerVars, xoVars,
                   restVars>>

NextDispatch == ProcessRow \/ ReturnResults

SpecDispatch == InitDispatch /\ [][NextDispatch]_vars

(***************************************************************************)
(* The two moment algorithms of momentcore (TwoPassMoments and             *)
(* OnlinePebayMoments), in exact arithmetic: a number is a fraction in     *)
(* lowest terms, a division by zero gives what a floating-point division   *)
(* gives (NaN for 0/0, an infinity otherwise), and a power with exponent   *)
(* 3/2 is kept as written.                                                 *)
(***************************************************************************)
Abs(i) == IF i < 0 THEN 0 - i ELSE i

RECURSIVE Gcd(_, _)
Gcd(a, b) == IF b = 0 THEN a ELSE Gcd(b, a % b)

\* the fraction n/d in lowest terms with a positive denominator (d # 0)
Rat(n, d) ==
    LET g == Gcd(Abs(n), Abs(d))
        s == IF d < 0 THEN 0 - 1 ELSE 1
    IN  [num |-> (s * n) \div g, den |-> (s * d) \div g]

RInt(i) == [num |-> i, den |-> 1]
Zero    == RInt(0)
NaN     == [kind |-> "nan"]
Inf     == [kind |-> "inf"]

RAdd(a, b) == Rat(a.num * b.den + b.num * a.den, a.den * b.den)
RSub(a, b) == Rat(a.num * b.den - b.num * a.den, a.den * b.den)
RMul(a, b) == Rat(a.num * b.num, a.den * b.den)

\* a / b between fractions, as the floating-point unit divides
FDiv(a, b) ==
    IF b.num = 0 THEN (IF a.num = 0 THEN NaN ELSE Inf)
    ELSE Rat(a.num * b.den, a.den * b.num)

\* a / b^(3/2) for a fraction a and a fraction b >= 0
DivPow15(a, b) ==
    IF b.num = 0 THEN (IF a.num = 0 THEN NaN ELSE Inf)
    ELSE [kind |-> "quot", num |-> a, of |-> b, exp |-> Rat(3, 2)]

\* the final moments with the quotients taken whatever the variance is
final_moments_unguarded(n, mean, S2, S3, S4) ==
    LET mu2 == FDiv(S2, RInt(n))
        q4  == FDiv(FDiv(S4, RInt(n)), RMul(mu2, mu2))
    IN  <<mean,
          mu2,
          DivPow15(FDiv(S3, RInt(n)), mu2),
          IF q4 \in {NaN, Inf} THEN q4 ELSE RSub(q4, RInt(3))>>

\* the final moments from n, the mean and the three sums of powers of the
\* deviations: mu2 = S2/n, mu3 = (S3/n) / mu2^1.5 and mu4 = (S4/n) / mu2^2 - 3,
\* the last two defined as 0 when mu2 = 0
final_moments(n, mean, S2, S3, S4) ==
    LET mu2 == FDiv(S2, RInt(n))
    IN  <<mean,
          mu2,
          IF mu2 = Zero THEN Zero ELSE DivPow15(FDiv(S3, RInt(n)), mu2),
          IF mu2 = Zero THEN Zero
          ELSE RSub(FDiv(FDiv(S4, RInt(n)), RMul(mu2, mu2)), RInt(3))>>

\* the online update equations for one incoming sample x
pebay_update(st, x) ==
    LET n        == st.n + 1
        delta    == RSub(RInt(x), st.mean)
        delta_n  == FDiv(delta, RInt(n))
        delta_n2 == RMul(delta_n, delta_n)
        term1    == RMul(RMul(delta, delta_n), RInt(n - 1))
    IN  [n    |-> n,
         mean |-> RAdd(st.mean, delta_n),
         M4   |-> RAdd(st.M4,
                    RSub(RAdd(RMul(RMul(term1, delta_n2), RInt(n * n - 3 * n + 3)),
                              RMul(RMul(RInt(6), delta_n2), st.M2)),
                         RMul(RMul(RInt(4), delta_n), st.M3))),
         M3   |-> RAdd(st.M3,
                    RSub(RMul(RMul(term1, delta_n), RInt(n - 2)),
                         RMul(RMul(RInt(3), delta_n), st.M2))),
         M2   |-> RAdd(st.M2, term1)]

\* rows have 1..MaxRowLen samples
MaxRowLen == 3

\* the values every sample of a constant row may have, and the values the
\* samples of the other rows are drawn from
ConstantValues == {0 - 128, 0 - 1, 0, 64, 127}
MixedValues    == {0 - 1, 0, 2}

nonMomVars == <<tunerVars, xoVars, dispVars, procs, input, fingerprints,
                benchmark>>

InitMoments ==
    /\ IdleTuner
    /\ IdleXo
    /\ IdleDisp
    /\ IdleProcs
    /\ IdleRead
    /\ IdleFp
    /\ IdleBench
    /\ \E n \in 1..MaxRowLen :
           \/ \E c \in ConstantValues : row = [i \in 1..n |-> c]
           \/ row \in [1..n -> MixedValues]
    /\ twopass_state = [at |-> "pass1", i |-> 1, sum |-> 0]
    /\ pebay_state = [at |-> "loop", i |-> 1,
                      st |-> [n |-> 0, mean |-> Zero, M2 |-> Zero,
                              M3 |-> Zero, M4 |-> Zero]]

\* first traversal: one sample added to the sum
TwoPassSum ==
    /\ twopass_state.at = "pass1"
    /\ twopass_state.i <= Len(row)
    /\ twopass_state' = [twopass_state EXCEPT !.i = @ + 1,
                                              !.sum = @ + row[twopass_state.i]]
    /\ UNCHANGED <<row, pebay_state, nonMomVars>>

\* the mean, between the two traversals
TwoPassMean ==
    /\ twopass_state.at = "pass1"
    /\ twopass_state.i > Len(row)
    /\ twopass_state' = [at |-> "pass2", i |-> 1,
                         mean |-> FDiv(RInt(twopass_state.sum), RInt(Len(row))),
                         S2 |-> Zero, S3 |-> Zero, S4 |-> Zero]
    /\ UNCHANGED <<row, pebay_state, nonMomVars>>

\* second traversal: the powers of one sample's deviation from the mean
TwoPassDeviation ==
    /\ twopass_state.at = "pass2"
    /\ twopass_state.i <= Len(row)
    /\ LET d  == RSub(RInt(row[twopass_state.i]), twopass_state.mean)
           d2 == RMul(d, d)
       IN  twopass_state' = [twopass_state EXCEPT
                                 !.i = @ + 1,
                                 !.S2 = RAdd(@, d2),
                                 !.S3 = RAdd(@, RMul(d2, d)),
                                 !.S4 = RAdd(@, RMul(d2, d2))]
    /\ UNCHANGED <<row, pebay_state, nonMomVars>>

TwoPassFinal ==
    /\ twopass_state.at = "pass2"
    /\ twopass_state.i > Len(row)
    /\ twopass_state' =
           [at |-> "done",
            moments |-> final_moments(Len(row), twopass_state.mean,
                                      twopass_state.S2, twopass_state.S3,
                                      twopass_state.S4)]
    /\ UNCHANGED <<row, pebay_state, nonMomVars>>

\* the single traversal: the running state takes in one sample
PebaySample ==
    /\ pebay_state.at = "loop"
    /\ pebay_state.i <= Len(row)
    /\ pebay_state' = [pebay_state EXCEPT
                           !.i = @ + 1,
                           !.st = pebay_update(@, row[pebay_state.i])]
    /\ UNCHANGED <<row, twopass_state, nonMomVars>>

PebayFinal ==
    /\ pebay_state.at = "loop"
    /\ pebay_state.i > Len(row)
    /\ pebay_state' =
           [at |-> "done",
            moments |-> final_moments(pebay_state.st.n, pebay_state.st.mean,
                                      pebay_state.st.M2, pebay_state.st.M3,
                                      pebay_state.st.M4)]
    /\ UNCHANGED <<row, twopass_state, nonMomVars>>

NextMoments ==
    \/ TwoPassSum
    \/ TwoPassMean
    \/ TwoPassDeviation
    \/ TwoPassFinal
    \/ PebaySample
    \/ PebayFinal

SpecMoments == InitMoments /\ [][NextMoments]_vars

(***************************************************************************)
(* Concurrent calls of get_optimal_threshold on the same CONFIG_PATH, each *)
(* broken into its file operations: the exists test, the read of the       *)
(* cache, the benchmark, open(CONFIG_PATH, "w"), which truncates, and the  *)
(* write of the record when the with block flushes and closes.             *)
(***************************************************************************)
NumProcs == 2

\* the record a run of the tuner left behind earlier, in this environment
EarlierRecord ==
    LET twopass == _run_benchmark("twopass", swept(row_lengths), Clock({}))
        pebay   == _run_benchmark("pebay", swept(row_lengths), Clock({}))
    IN  FileWith(Json(json_encode(
            config_record(_find_crossover(twopass, pebay),
                          _system_fingerprint(BaseEnv), twopass, pebay))))

\* each writer has its own file offset, starting at 0: its text replaces the
\* beginning of what is there, and what another writer put beyond the end
\* of this text stays (covers: this text is at least as long as that)
write_from_start(f, obj, covers) ==
    IF f.exists /\ f.text # Invalid("empty") /\ ~covers
    THEN FileWith(Invalid("torn"))
    ELSE FileWith(Json(json_encode(obj)))

InitConcurrent ==
    /\ file \in {NoFile, EarlierRecord}
    /\ perms = [r |-> TRUE, w |-> TRUE]
    /\ env = BaseEnv
    /\ last = NoCall
    /\ IdleXo
    /\ IdleDisp
    /\ IdleMom
    /\ IdleRead
    /\ IdleFp
    /\ IdleBench
    /\ procs = [p \in 1..NumProcs |-> [pc |-> "call"]]

nonProcVars == <<perms, env, last, xoVars, dispVars, momVars, input,
                 fingerprints, benchmark>>

\* system_id = _system_fingerprint(); if not force_retune and
\* os.path.exists(CONFIG_PATH)
CallStart(p, force_retune) ==
    /\ procs[p].pc = "call"
    /\ procs' = [procs EXCEPT ![p] =
                    [pc |-> IF ~force_retune /\ os_path_exists(file)
                            THEN "load" ELSE "benchmark",
                     force_retune |-> force_retune,
                     system_id |-> _system_fingerprint(env)]]
    /\ UNCHANGED <<file, nonProcVars>>

\* the try block that reads the cache, and its except clause
CallLoad(p) ==
    /\ procs[p].pc = "load"
    /\ LET r == except_Exception_pass(cache_try(file, perms, procs[p].system_id))
       IN  procs' = [procs EXCEPT ![p] =
                        IF r.kind = "return"
                        THEN [pc |-> "done", ret |-> r.val, read |-> file,
                              wrote |-> FALSE]
                        ELSE [pc |-> "benchmark",
                              force_retune |-> procs[p].force_retune,
                              system_id |-> procs[p].system_id, read |-> file]]
    /\ UNCHANGED <<file, nonProcVars>>

\* the two benchmarks and the crossover search
CallBenchmark(p, W) ==
    /\ procs[p].pc = "benchmark"
    /\ LET twopass == _run_benchmark("twopass", swept(row_lengths), Clock(W))
           pebay   == _run_benchmark("pebay", swept(row_lengths), Clock(W))
       IN  procs' = [procs EXCEPT ![p] =
                        [pc |-> "open", system_id |-> procs[p].system_id,
                         twopass |-> twopass, pebay |-> pebay,
                         threshold |-> _find_crossover(twopass, pebay)]]
    /\ UNCHANGED <<file, nonProcVars>>

\* open(CONFIG_PATH, "w")
CallOpen(p) ==
    /\ procs[p].pc = "open"
    /\ LET o == open_write(file, perms)
       IN  IF o.kind = "raise"
           THEN /\ procs' = [procs EXCEPT ![p] =
                                [pc |-> "done", ret |-> PyInt(procs[p].threshold),
                                 wrote |-> FALSE]]
                /\ file' = file
           ELSE /\ procs' = [procs EXCEPT ![p].pc = "dump"]
                /\ file' = o.val
    /\ UNCHANGED nonProcVars

\* json.dump(...) and the end of the with block, then return threshold
CallDump(p, covers) ==
    /\ procs[p].pc = "dump"
    /\ file' = write_from_start(file,
                   config_record(procs[p].threshold, procs[p].system_id,
                                 procs[p].twopass, procs[p].pebay),
                   covers)
    /\ procs' = [procs EXCEPT ![p] =
                    [pc |-> "done", ret |-> PyInt(procs[p].threshold),
                     wrote |-> TRUE]]
    /\ UNCHANGED nonProcVars

NextConcurrent ==
    \E p \in 1..NumProcs :
        \/ \E force_retune \in BOOLEAN : CallStart(p, force_retune)
        \/ CallLoad(p)
        \/ \E W \in {{}, {row_lengths[2]}} : CallBenchmark(p, W)
        \/ CallOpen(p)
        \/ \E covers \in BOOLEAN : CallDump(p, covers)

SpecConcurrent == InitConcurrent /\ [][NextConcurrent]_vars

(***************************************************************************)
(* read_binary_matrix, and main as far as it hands the matrix read to      *)
(* compute_moment_rows.  The file is a sequence of bytes (0..255).         *)
(***************************************************************************)
\* struct.pack("<i", n): the four bytes of a 32-bit two's complement
\* integer, least significant first
pack_int32(n) ==
    <<n % 256, (n \div 256) % 256, (n \div 65536) % 256,
      (n \div 16777216) % 256>>

\* struct.unpack("<i", b)
unpack_int32(b) ==
    b[1] + 256 * b[2] + 65536 * b[3]
        + 16777216 * (IF b[4] >= 128 THEN b[4] - 256 ELSE b[4])

\* np.frombuffer(..., dtype=np.int8): each byte as a signed 8-bit value
int8(byte) == IF byte >= 128 THEN byte - 256 ELSE byte

\* matrix.reshape((M, N)): row by row
reshape(values, M, N) ==
    [r \in 1..M |-> [c \in 1..N |-> values[(r - 1) * N + c]]]

\* read_binary_matrix with a shape test that lets a zero dimension through
read_binary_matrix_allows_zero(inp) ==
    LET header == inp.header IN
    IF Len(header) < 8 THEN Raise("ValueError") ELSE
    LET M == unpack_int32(SubSeq(header, 1, 4))
        N == unpack_int32(SubSeq(header, 5, 8))
    IN
    IF M < 0 \/ N < 0 THEN Raise("ValueError") ELSE
    LET matrix == [i \in DOMAIN inp.payload |-> int8(inp.payload[i])] IN
    IF Len(matrix) # M * N THEN Raise("ValueError")
    ELSE Return(reshape(matrix, M, N))

\* read_binary_matrix on a file that can be opened: header = f.read(8) is
\* the first 8 bytes (fewer at the end of the file), f.read() the rest
read_binary_matrix(inp) ==
    LET header == inp.header IN
    IF Len(header) < 8 THEN Raise("ValueError") ELSE
    LET M == unpack_int32(SubSeq(header, 1, 4))
        N == unpack_int32(SubSeq(header, 5, 8))
    IN
    IF M <= 0 \/ N <= 0 THEN Raise("ValueError") ELSE
    LET matrix == [i \in DOMAIN inp.payload |-> int8(inp.payload[i])] IN
    IF Len(matrix) # M * N THEN Raise("ValueError")
    ELSE Return(reshape(matrix, M, N))

\* the files read: a header declaring M and N, cut off after some of its
\* bytes or whole, followed (when whole) by a payload of some length
DeclaredRows == {0 - 1, 0, 65536} \cup 1..MaxRows
DeclaredCols == {0 - 1, 0, 256} \cup 1..MaxCols
HeaderLens   == {0, 4, 7, 8}
PayloadLens  == 0..(MaxRows * MaxCols + 1)

\* payload bytes: all the same, or all different
PayloadBytes(k) ==
    {[i \in 1..k |-> 127], [i \in 1..k |-> (128 + 77 * (i - 1)) % 256]}

\* the file made of these parts; made records the parts, for stating
\* properties
MatrixFile(M, N, h, bytes) ==
    [header  |-> SubSeq(pack_int32(M) \o pack_int32(N), 1, h),
     payload |-> IF h < 8 THEN <<>> ELSE bytes,
     made    |-> [M |-> M, N |-> N, h |-> h]]

InitRead ==
    /\ IdleTuner
    /\ IdleXo
    /\ IdleMom
    /\ IdleProcs
    /\ IdleFp
    /\ IdleBench
    /\ \E M \in DeclaredRows, N \in DeclaredCols, h \in HeaderLens,
          k \in PayloadLens :
           \E bytes \in PayloadBytes(k) : input = MatrixFile(M, N, h, bytes)
    /\ data = <<>>
    /\ threshold \in 1..(MaxCols + 1)
    /\ results = <<>>
    /\ algo_calls = <<>>
    /\ dpc = [at |-> "read", row |-> 0]

\* main: data = read_binary_matrix(args.input); an exception ends main with
\* "Error: ..." and exit status 1, otherwise main goes on (with the threshold
\* the tuner returned) to compute_moment_rows(data, threshold)
ReadMatrix ==
    /\ dpc.at = "read"
    /\ LET r == read_binary_matrix(input)
       IN  IF r.kind = "raise"
           THEN /\ dpc' = [at |-> "error", row |-> 0, exc |-> r.exc]
                /\ UNCHANGED <<data, results>>
           ELSE /\ data' = r.val
                /\ results' = [i \in 1..4 |-> <<>>]
                /\ dpc' = [at |-> "loop", row |-> 1]
    /\ UNCHANGED <<input, threshold, algo_calls, tunerVars, xoVars, momVars,
                   procs, fingerprints, benchmark>>

NextRead == ReadMatrix \/ ProcessRow \/ ReturnResults

SpecRead == InitRead /\ [][NextRead]_vars

(***************************************************************************)
(* _system_fingerprint on its own, on a host that has more to it than the  *)
(* five facts read: the host name is one thing the function does not read. *)
(***************************************************************************)
Nodes == {"laptop", "runner-7"}

FactNames == {"platform", "machine", "processor", "python_version", "user"}

FactValues(k) ==
    CASE k = "platform"       -> Platforms
      [] k = "machine"        -> Machines
      [] k = "processor"      -> Processors
      [] k = "python_version" -> Pythons
      [] k = "user"           -> Users

\* what the platform and getpass modules can be asked on a host
Host(e, node) == e @@ [node |-> node]

\* the five facts out of a host
Facts(h) == [k \in FactNames |-> h[k]]

InitFingerprint ==
    /\ IdleTuner
    /\ IdleXo
    /\ IdleDisp
    /\ IdleMom
    /\ IdleProcs
    /\ IdleRead
    /\ IdleBench
    /\ fingerprints = <<>>

\* a call of _system_fingerprint(); the two most recent calls are kept
FingerprintCall(node) ==
    /\ fingerprints' =
           (IF Len(fingerprints) < 2 THEN fingerprints ELSE Tail(fingerprints))
           \o <<[host |-> Host(env, node),
                 value |-> _system_fingerprint(Host(env, node))]>>
    /\ UNCHANGED <<tunerVars, xoVars, dispVars, momVars, procs, input,
                   benchmark>>

\* one of the five facts changes
ChangeFact(k, v) ==
    /\ env[k] # v
    /\ env' = [env EXCEPT ![k] = v]
    /\ UNCHANGED <<file, perms, last, xoVars, dispVars, restVars>>

NextFingerprint ==
    \/ \E node \in Nodes : FingerprintCall(node)
    \/ \E k \in FactNames : \E v \in FactValues(k) : ChangeFact(k, v)

SpecFingerprint == InitFingerprint /\ [][NextFingerprint]_vars

(***************************************************************************)
(* _run_benchmark step by step: the loop over the requested lengths, the   *)
(* synthetic row, the timed invocations and the mean of their durations.   *)
(***************************************************************************)
\* the synthetic row going through all 256 values of a signed byte
synthetic_row_full_int8(n) == [j \in 1..n |-> ((j - 1) % 256) - 128]

\* row = [i % 128 - 64 for i in range(n)]
synthetic_row(n) == [j \in 1..n |-> ((j - 1) % 128) - 64]

\* results[n] = value, on a dict that keeps its keys in insertion order
dict_set(tbl, n, value) ==
    Timings(IF n \in Range(tbl.keys) THEN tbl.keys ELSE Append(tbl.keys, n),
            [k \in Range(tbl.keys) \cup {n} |->
                IF k = n THEN value ELSE tbl.d[k]])

RECURSIVE sum(_)
sum(s) == IF s = <<>> THEN 0 ELSE s[1] + sum(Tail(s))

\* the lengths asked for, up to two of them, and the repeat counts
BenchLengths == {8, 130, 260}
MaxRepeat    == 2

\* what one timed invocation takes, in ticks of the clock
Ticks == {0, 1}

InitBenchmark ==
    /\ IdleTuner
    /\ IdleXo
    /\ IdleDisp
    /\ IdleMom
    /\ IdleProcs
    /\ IdleRead
    /\ IdleFp
    /\ \E lengths \in UNION {[1..k -> BenchLengths] : k \in 1..2},
          repeat \in 1..MaxRepeat :
           benchmark = [at |-> "for", row_lengths |-> lengths,
                        repeat |-> repeat, i |-> 1,
                        results |-> Timings(<<>>, <<>>), calls |-> <<>>]

nonBenchVars == <<tunerVars, xoVars, dispVars, momVars, procs, input,
                  fingerprints>>

\* for n in row_lengths: the row is made and durations = []
BenchmarkRow ==
    /\ benchmark.at = "for"
    /\ benchmark.i <= Len(benchmark.row_lengths)
    /\ LET n == benchmark.row_lengths[benchmark.i]
       IN  benchmark' = [at |-> "repeat",
                         row_lengths |-> benchmark.row_lengths,
                         repeat |-> benchmark.repeat, i |-> benchmark.i,
                         results |-> benchmark.results,
                         calls |-> benchmark.calls,
                         n |-> n, row |-> synthetic_row(n), durations |-> <<>>]
    /\ UNCHANGED nonBenchVars

\* for _ in range(repeat): one timed func(row)
BenchmarkCall(ticks) ==
    /\ benchmark.at = "repeat"
    /\ Len(benchmark.durations) < benchmark.repeat
    /\ benchmark' = [benchmark EXCEPT
                         !.calls = Append(@, [n |-> benchmark.n,
                                              row |-> benchmark.row]),
                         !.durations = Append(@, ticks)]
    /\ UNCHANGED nonBenchVars

\* results[n] = sum(durations) / repeat
BenchmarkMean ==
    /\ benchmark.at = "repeat"
    /\ Len(benchmark.durations) = benchmark.repeat
    /\ benchmark' = [at |-> "for",
                     row_lengths |-> benchmark.row_lengths,
                     repeat |-> benchmark.repeat, i |-> benchmark.i + 1,
                     results |-> dict_set(benchmark.results, benchmark.n,
                                     Rat(sum(benchmark.durations),
                                         benchmark.repeat)),
                     calls |-> benchmark.calls]
    /\ UNCHANGED nonBenchVars

\* return results
BenchmarkReturn ==
    /\ benchmark.at = "for"
    /\ benchmark.i > Len(benchmark.row_lengths)
    /\ benchmark' = [at |-> "done",
                     row_lengths |-> benchmark.row_lengths,
                     repeat |-> benchmark.repeat,
                     results |-> benchmark.results,
                     calls |-> benchmark.calls]
    /\ UNCHANGED nonBenchVars

NextBenchmark ==
    \/ BenchmarkRow
    \/ \E ticks \in Ticks : BenchmarkCall(ticks)
    \/ BenchmarkMean
    \/ BenchmarkReturn

SpecBenchmark == InitBenchmark /\ [][NextBenchmark]_vars

(***************************************************************************)
(* Properties.                                                             *)
(***************************************************************************)
SetMin(S) == CHOOSE x \in S : \A y \in S : x <= y
SetMax(S) == CHOOSE x \in S : \A y \in S : y <= x

\* the crossover rule: the smallest length at which the online algorithm is
\* strictly faster, the largest length when there is none
FirstWin(twopass, pebay) ==
    LET wins == {n \in DOMAIN twopass.d : pebay.d[n] < twopass.d[n]}
    IN  IF wins = {} THEN SetMax(DOMAIN twopass.d) ELSE SetMin(wins)

BothBenchmarked(c) == c.src = "bench" /\ c.bench = <<"twopass", "pebay">>

\* C1: a call with force_retune=False that finds a readable record with the
\* call's fingerprint and a threshold member returns exactly that member,
\* runs no benchmark and leaves the file as it was.
C1_CacheHit ==
    [][(/\ last'.op = "call"
        /\ ~last'.force
        /\ perms.r
        /\ HasMember(file, "system_id")
        /\ member(file.text.val, "system_id") = PyStr(last'.fp)
        /\ HasMember(file, "threshold"))
       => (/\ last'.outcome = "return"
           /\ last'.ret = member(file.text.val, "threshold")
           /\ last'.src = "cache"
           /\ last'.bench = <<>>
           /\ file' = file)]_vars

C1_Witness ==
    /\ last.op = "call"
    /\ ~last.force
    /\ last.saw.readable
    /\ last.saw.sid = "same"
    /\ last.saw.thr = "int"
    /\ last.src = "cache"
    /\ last.ret = PyInt(16)

\* C2 as claimed: after a force_retune=True call that returned T, every call
\* with force_retune=False made while nothing outside the tuner has changed
\* returns T and runs no benchmark.
C2_RoundTripAlways ==
    (last.op = "call" /\ ~last.force /\ last.forced.on)
    => (/\ last.outcome = "return"
        /\ last.ret = last.forced.T
        /\ last.bench = <<>>)

\* C2 amended: the same, for a force_retune=True call whose record was
\* written in full to a file that can be read back.
C2_RoundTrip ==
    (/\ last.op = "call"
     /\ ~last.force
     /\ last.forced.on
     /\ last.forced.saved
     /\ perms.r)
    => (/\ last.outcome = "return"
        /\ last.ret = last.forced.T
        /\ last.bench = <<>>)

C2_Witness ==
    /\ last.op = "call"
    /\ ~last.force
    /\ last.forced.on
    /\ last.forced.saved
    /\ perms.r
    /\ last.src = "cache"
    /\ last.ret = last.forced.T

\* the file holds exactly the record the call c made: its four members, the
\* call's fingerprint and the threshold the call returned
FreshRecord(f, c) ==
    /\ IsRecord(f)
    /\ f.text.val.keys = <<"threshold", "system_id", "twopass", "pebay">>
    /\ member(f.text.val, "system_id") = PyStr(c.fp)
    /\ member(f.text.val, "threshold") = c.ret

StoredFingerprintDiffers(f, fp) ==
    HasMember(f, "system_id") /\ member(f.text.val, "system_id") # PyStr(fp)

\* C3 as claimed: a call that finds a record with another fingerprint takes
\* nothing from it, benchmarks both algorithms and leaves in the file a
\* record of its own carrying the current fingerprint.
C3_GatingOverwrites ==
    [][(last'.op = "call" /\ StoredFingerprintDiffers(file, last'.fp))
       => (/\ BothBenchmarked(last')
           /\ last'.ret = PyInt(FirstWin(last'.twopass, last'.pebay))
           /\ FreshRecord(file', last'))]_vars

\* C3 amended: the record is overwritten when the write succeeds.
C3_Gating ==
    [][(last'.op = "call" /\ StoredFingerprintDiffers(file, last'.fp))
       => (/\ BothBenchmarked(last')
           /\ last'.ret = PyInt(FirstWin(last'.twopass, last'.pebay))
           /\ (last'.save = "ok" => FreshRecord(file', last')))]_vars

C3_Witness ==
    /\ last.op = "call"
    /\ ~last.force
    /\ last.saw.readable
    /\ last.saw.sid = "differs"
    /\ last.saw.thr = "int"
    /\ last.save = "ok"
    /\ FreshRecord(file, last)

\* the cache file is missing, unreadable, unparseable, not a record, or
\* a record without a threshold member
Unusable(saw) ==
    \/ ~saw.exists
    \/ ~saw.readable
    \/ ~saw.parses
    \/ ~saw.record
    \/ saw.thr = "absent"

\* C4: a call with force_retune=False that finds the cache file unusable
\* does not raise, benchmarks both algorithms and returns the crossover of
\* the two fresh tables.
C4_CorruptionTolerance ==
    (last.op = "call" /\ ~last.force /\ Unusable(last.saw))
    => (/\ last.outcome = "return"
        /\ BothBenchmarked(last)
        /\ last.ret = PyInt(FirstWin(last.twopass, last.pebay)))

C4_Witness ==
    /\ last.op = "call"
    /\ ~last.force
    /\ last.saw.readable
    /\ last.saw.parses
    /\ ~last.saw.record
    /\ last.outcome = "return"
    /\ BothBenchmarked(last)

\* C5: every call that returns, returns an integer; a record whose
\* threshold member is not an integer is treated as absent and leads to a
\* fresh benchmark even when its fingerprint is the current one.
C5_ValidInteger ==
    last.op = "call"
    => (/\ last.outcome = "return" => last.ret.t = "int"
        /\ (/\ ~last.force
            /\ last.saw.readable
            /\ last.saw.sid = "same"
            /\ last.saw.thr \notin {"int", "absent"})
           => BothBenchmarked(last))

\* C6: when saving the new record fails, at the open or part-way through
\* the write, the call does not raise, warns, returns the fresh threshold
\* and a record persisted before the call is still in the file, unchanged.
C6_WriteFailure ==
    [][(last'.op = "call" /\ last'.save \in {"openfail", "iofail"})
       => (/\ last'.outcome = "return"
           /\ last'.warned
           /\ last'.ret = PyInt(FirstWin(last'.twopass, last'.pebay))
           /\ IsRecord(file) => file' = file)]_vars

\* C7: _find_crossover returns the smallest length at which the online
\* table is strictly below the two-pass table, whatever the insertion order
\* of either table, and the largest length when there is no such length.
C7_CrossoverRule ==
    crossover.done => crossover.val = FirstWin(twopass_times, pebay_times)

C7_Witness ==
    /\ crossover.done
    /\ twopass_times.keys = <<32, 8, 16>>
    /\ pebay_times.keys = <<16, 32, 8>>
    /\ pebay_times.d[8] >= twopass_times.d[8]
    /\ pebay_times.d[16] < twopass_times.d[16]
    /\ pebay_times.d[32] < twopass_times.d[32]
    /\ crossover.val = 16

\* C8: for each row processed exactly one algorithm was invoked, once: the
\* two-pass algorithm when the row is shorter than the threshold, the
\* online algorithm otherwise (a row as long as the threshold included).
C8_DispatchBoundary ==
    /\ Len(algo_calls) = dpc.row - 1
    /\ \A j \in DOMAIN algo_calls :
           /\ algo_calls[j].row = data[j]
           /\ (algo_calls[j].algo = "twopass") <=> (Len(data[j]) < threshold)
           /\ (algo_calls[j].algo = "pebay") <=> (Len(data[j]) >= threshold)
    /\ dpc.at = "done" => Len(algo_calls) = Len(data)

C8_Witness ==
    /\ dpc.at = "done"
    /\ Len(data) = 2
    /\ Len(data[1]) = threshold
    /\ algo_calls[1].algo = "pebay"
    /\ algo_calls[2].algo = "pebay"

\* C9: there are four output sequences; after k rows each holds k values,
\* at the end one per row of the matrix, and value j of sequence i is
\* moment i of row j (rounded to two decimals), in the order of the rows.
C9_RowCountAndOrder ==
    dpc.at # "idle"
    => (/\ DOMAIN results = 1..4
        /\ \A i \in 1..4 :
               /\ Len(results[i]) = dpc.row - 1
               /\ dpc.at = "done" => Len(results[i]) = Len(data)
               /\ \A j \in DOMAIN results[i] :
                      /\ results[i][j].places = 2
                      /\ results[i][j].rounded.moment = i
                      /\ results[i][j].rounded.of = data[j])

C9_Witness ==
    /\ dpc.at = "done"
    /\ Len(data) = 2
    /\ data[1] # data[2]
    /\ \A i \in 1..4 : Len(results[i]) = 2

IsConstantRow(r) == \A i \in DOMAIN r : r[i] = r[1]

\* C11: for a row of n >= 1 samples all equal to c, the two-pass algorithm
\* and the online update equations started from (0, 0, 0, 0, 0) both end
\* with mean c and variance, skewness and kurtosis 0: the zero variance
\* takes the special case, no quotient by zero (NaN, infinity) comes out.
C11_ConstantRows ==
    IsConstantRow(row)
    => (/\ twopass_state.at = "done"
           => twopass_state.moments = <<RInt(row[1]), Zero, Zero, Zero>>
        /\ pebay_state.at = "done"
           => pebay_state.moments = <<RInt(row[1]), Zero, Zero, Zero>>)

C11_Witness ==
    /\ Len(row) = 3
    /\ IsConstantRow(row)
    /\ row[1] = 0 - 128
    /\ twopass_state.at = "done"
    /\ pebay_state.at = "done"
    /\ pebay_state.moments = <<RInt(0 - 128), Zero, Zero, Zero>>

\* a measured duration that is zero or negative
Anomalous(t) == t <= 0

\* the crossover rule with every length at which either measurement is
\* anomalous counted as a tie, which favours the two-pass algorithm
FirstSoundWin(twopass, pebay) ==
    LET wins == {n \in DOMAIN twopass.d :
                    /\ ~Anomalous(twopass.d[n])
                    /\ ~Anomalous(pebay.d[n])
                    /\ pebay.d[n] < twopass.d[n]}
    IN  IF wins = {} THEN SetMax(DOMAIN twopass.d) ELSE SetMin(wins)

\* C12: a length at which either measured duration is zero or negative
\* counts as a tie in favour of the two-pass algorithm, so the crossover
\* returned is the first length won on two sound measurements, or the
\* largest length.
C12_AnomalyTie ==
    crossover.done
    => crossover.val = FirstSoundWin(twopass_times, pebay_times)

\* the file holds one complete record
CompleteRecord(f) ==
    /\ IsRecord(f)
    /\ Range(f.text.val.keys) = {"threshold", "system_id", "twopass", "pebay"}

\* C13: concurrent calls write the cache one at a time, so at most one of
\* them has the file open for writing, whatever a call reads is absent or a
\* complete record, and once all calls are done the file holds a complete
\* record.
C13_SerializedWrites ==
    /\ Cardinality({p \in DOMAIN procs : procs[p].pc = "dump"}) <= 1
    /\ \A p \in DOMAIN procs :
           "read" \in DOMAIN procs[p]
           => (~procs[p].read.exists \/ CompleteRecord(procs[p].read))
    /\ (\A p \in DOMAIN procs : procs[p].pc = "done")
       => (~file.exists \/ CompleteRecord(file))

\* the file does not hold a whole header, declares a dimension that is not
\* positive, or does not hold exactly M x N values
Malformed(inp) ==
    \/ inp.made.h < 8
    \/ inp.made.M <= 0
    \/ inp.made.N <= 0
    \/ Len(inp.payload) # inp.made.M * inp.made.N

\* C14: read_binary_matrix raises ValueError exactly on the malformed files;
\* on every other file it returns the M rows of N values each that the
\* payload holds, row by row, so compute_moment_rows only ever gets M rows,
\* none of them empty.
C14_SourceValidation ==
    dpc.at # "read"
    => (/\ Malformed(input) <=> dpc.at = "error"
        /\ dpc.at = "error" => (dpc.exc = "ValueError" /\ algo_calls = <<>>)
        /\ dpc.at \in {"loop", "done"}
           => (/\ Len(data) = input.made.M
               /\ \A r \in DOMAIN data :
                      /\ Len(data[r]) = input.made.N
                      /\ Len(data[r]) >= 1
                      /\ \A c \in DOMAIN data[r] :
                             data[r][c] =
                                 int8(input.payload[(r - 1) * input.made.N + c])
               /\ \A j \in DOMAIN algo_calls : algo_calls[j].row # <<>>))

C14_Witness ==
    /\ dpc.at = "error"
    /\ dpc.exc = "ValueError"
    /\ input.made = [M |-> 2, N |-> 2, h |-> 8]
    /\ Len(input.payload) = 3

\* the facts in which two hosts differ
FactsChanged(g, h) == {k \in FactNames : g[k] # h[k]}

\* C15: two calls made with the same five facts return the same string,
\* whatever else differs between the hosts, and two calls between which
\* exactly one of the five facts differs return different strings.
C15_FingerprintDeterminism ==
    \A i, j \in DOMAIN fingerprints :
        LET a == fingerprints[i]
            b == fingerprints[j]
        IN  /\ FactsChanged(a.host, b.host) = {} => a.value = b.value
            /\ Cardinality(FactsChanged(a.host, b.host)) = 1
               => a.value # b.value

C15_Witness ==
    /\ Len(fingerprints) = 2
    /\ FactsChanged(fingerprints[1].host, fingerprints[2].host) = {"processor"}
    /\ fingerprints[1].host.node # fingerprints[2].host.node
    /\ fingerprints[1].value # fingerprints[2].value

\* the online algorithm is strictly faster at no length of the two tables
NeverFaster(twopass, pebay) ==
    \A n \in DOMAIN twopass.d : ~(pebay.d[n] < twopass.d[n])

\* C16: every fresh tuning run benchmarks both algorithms over the same
\* ascending sweep, which starts at 8, advances by 32 and ends with 2048;
\* the threshold returned is a length of the sweep, and is 2048 when the
\* online algorithm is never strictly faster.
C16_BenchmarkSweep ==
    (last.op = "call" /\ last.src = "bench")
    => (/\ last.twopass.keys = swept(row_lengths)
        /\ last.pebay.keys = swept(row_lengths)
        /\ row_lengths[1] = 8
        /\ \A i \in 1..(Len(row_lengths) - 1) :
               row_lengths[i + 1] = row_lengths[i] + 32
        /\ row_lengths[Len(row_lengths)] = 2048
        /\ last.outcome = "return" => last.ret.i \in Range(row_lengths)
        /\ (last.outcome = "return" /\ NeverFaster(last.twopass, last.pebay))
           => last.ret = PyInt(2048))

\* C17 as claimed: a call with force_retune=True takes nothing from the
\* cache, runs the benchmark once for each algorithm, returns the crossover
\* of the two fresh tables and leaves its own record in the file.
C17_ForcedRetuneOverwrites ==
    [][(last'.op = "call" /\ last'.force)
       => (/\ last'.outcome = "return"
           /\ last'.src = "bench"
           /\ last'.bench = <<"twopass", "pebay">>
           /\ last'.ret = PyInt(FirstWin(last'.twopass, last'.pebay))
           /\ FreshRecord(file', last'))]_vars

\* C17 amended: the record is overwritten when the write succeeds.
C17_ForcedRetune ==
    [][(last'.op = "call" /\ last'.force)
       => (/\ last'.outcome = "return"
           /\ last'.src = "bench"
           /\ last'.bench = <<"twopass", "pebay">>
           /\ last'.ret = PyInt(FirstWin(last'.twopass, last'.pebay))
           /\ last'.save # "none"
           /\ (last'.save = "ok" => FreshRecord(file', last')))]_vars

C17_Witness ==
    /\ last.op = "call"
    /\ last.force
    /\ last.saw.readable
    /\ last.saw.sid = "same"
    /\ last.saw.thr = "int"
    /\ last.src = "bench"
    /\ last.save = "ok"
    /\ FreshRecord(file, last)

\* the rows of d taken in the order p
Permuted(d, p) == [k \in DOMAIN p |-> d[p[k]]]

\* four sequences computed for the rows in the order p, put back in the
\* order of the rows
Reassembled(out, p) ==
    [i \in 1..4 |->
        [j \in DOMAIN p |-> out[i][CHOOSE k \in DOMAIN p : p[k] = j]]]

\* one worker per row, each filling in the positions of its own row
ByWorkers(d, thr) ==
    [i \in 1..4 |->
        [j \in DOMAIN d |-> compute_moment_rows(<<d[j]>>, thr)[i][1]]]

\* C18: what the sequential loop returns is what comes out when the rows
\* are processed in any other order and the values put back in row order,
\* and what comes out when every row is processed by a worker of its own.
C18_OrderIndependence ==
    dpc.at = "done"
    => (/\ \A p \in Orders(DOMAIN data) :
               Reassembled(compute_moment_rows(Permuted(data, p), threshold), p)
                   = results
        /\ ByWorkers(data, threshold) = results)

C18_Witness ==
    /\ dpc.at = "done"
    /\ Len(data) = 2
    /\ Len(data[1]) = 2
    /\ data[1] # data[2]
    /\ results[1][1] # results[1][2]
    /\ Reassembled(compute_moment_rows(Permuted(data, <<2, 1>>), threshold),
                   <<2, 1>>) = results

\* the invocations made with a row for length n
CallsFor(n) == {c \in DOMAIN benchmark.calls : benchmark.calls[c].n = n}

\* how often n is among the lengths asked for
TimesRequested(n) ==
    Cardinality({i \in DOMAIN benchmark.row_lengths :
                    benchmark.row_lengths[i] = n})

\* what holds of every run of _run_benchmark whatever the values of the row:
\* each invocation gets a row of exactly n values, the same row for the same
\* n, and at the end there were repeat invocations per length asked for and
\* the table has one entry per length
CallsAndEntries ==
    /\ \A c \in DOMAIN benchmark.calls :
           /\ Len(benchmark.calls[c].row) = benchmark.calls[c].n
           /\ \A e \in DOMAIN benchmark.calls :
                  benchmark.calls[e].n = benchmark.calls[c].n
                  => benchmark.calls[e].row = benchmark.calls[c].row
    /\ benchmark.at = "done"
       => (/\ \A n \in Range(benchmark.row_lengths) :
                  Cardinality(CallsFor(n))
                      = benchmark.repeat * TimesRequested(n)
           /\ Range(benchmark.results.keys) = Range(benchmark.row_lengths)
           /\ DOMAIN benchmark.results.d = Range(benchmark.row_lengths)
           /\ Len(benchmark.results.keys)
                  = Cardinality(Range(benchmark.row_lengths)))

\* C19 as claimed: the above, with rows whose values cycle through the
\* whole signed 8-bit range, so that a row of 256 values or more has every
\* value from -128 to 127.
C19_SyntheticRowsFullRange ==
    benchmark.at # "idle"
    => (/\ CallsAndEntries
        /\ \A c \in DOMAIN benchmark.calls :
               /\ Range(benchmark.calls[c].row) \subseteq (0 - 128)..127
               /\ benchmark.calls[c].n >= 256
                  => Range(benchmark.calls[c].row) = (0 - 128)..127)

\* C19 amended: the values cycle through -64..63, value i % 128 - 64 at
\* index i (from 0), so that a row of 128 values or more has exactly the
\* values from -64 to 63.
C19_SyntheticRows ==
    benchmark.at # "idle"
    => (/\ CallsAndEntries
        /\ \A c \in DOMAIN benchmark.calls :
               /\ \A j \in DOMAIN benchmark.calls[c].row :
                      benchmark.calls[c].row[j] = ((j - 1) % 128) - 64
               /\ Range(benchmark.calls[c].row) \subseteq (0 - 64)..63
               /\ benchmark.calls[c].n >= 128
                  => Range(benchmark.calls[c].row) = (0 - 64)..63)

C19_Witness ==
    /\ benchmark.at = "done"
    /\ benchmark.row_lengths = <<260, 8>>
    /\ benchmark.repeat = 2
    /\ Len(benchmark.calls) = 4
    /\ benchmark.calls[1].row[129] = 0 - 64
    /\ benchmark.results.keys = <<260, 8>>

\* the row length a key of a stored timing table stands for
StoredLength(s) == CHOOSE n \in Range(row_lengths) : ToString(n) = s

\* the timing table stored in the file under the given name, as a table
\* from row length to duration
StoredTable(f, name) ==
    LET obj == member(f.text.val, name)
    IN  Timings([i \in DOMAIN obj.keys |-> StoredLength(obj.keys[i])],
                [n \in {StoredLength(obj.keys[i]) : i \in DOMAIN obj.keys} |->
                    obj.vals[CHOOSE i \in DOMAIN obj.keys :
                                 StoredLength(obj.keys[i]) = n]])

\* C20: while the last thing written to the cache file is the record of a
\* call whose write succeeded, the file holds one complete record: its
\* fingerprint is that call's, its threshold is the value that call
\* returned, and its threshold is the crossover of the two timing tables
\* stored with it.
C20_RecordConsistency ==
    (last.op = "call" /\ last.writer.on)
    => (/\ CompleteRecord(file)
        /\ Len(file.text.val.keys) = 4
        /\ member(file.text.val, "system_id") = PyStr(last.writer.fp)
        /\ member(file.text.val, "threshold") = last.writer.ret
        /\ member(file.text.val, "threshold").t = "int"
        /\ member(file.text.val, "twopass").t = "object"
        /\ member(file.text.val, "pebay").t = "object"
        /\ member(file.text.val, "threshold") =
               PyInt(FirstWin(StoredTable(file, "twopass"),
                              StoredTable(file, "pebay"))))

C20_Witness ==
    /\ last.op = "call"
    /\ last.writer.on
    /\ ~last.force
    /\ last.src = "cache"
    /\ last.fp = last.writer.fp
    /\ member(file.text.val, "threshold") = PyInt(row_lengths[2])
    /\ StoredTable(file, "pebay").d[row_lengths[2]] = 1

====
